---- MODULE Spec2Model ----
(***************************************************************************)
(* A model of utils.py of the EvmEval scorer: the DisjointSet union-find,  *)
(* the TransitiveGraph reachability closure, and the two cluster checks    *)
(* transitive_not_resolved and within_cluster_span_duplicate.              *)
(*                                                                         *)
(* Each component is an object (or a pure function) of its own, so each    *)
(* has its own specification over its own variables; the variables of the  *)
(* other components stay at their idle values.                             *)
(***************************************************************************)
EXTENDS Integers, Sequences, FiniteSets

VARIABLES
    \* DisjointSet
    leader,      \* self.leader: member -> leader of its group
    group,       \* self.group: leader -> set of members
    added,       \* history: the pairs {a, b} passed to the add calls so far
    call,        \* history: the arguments of the last add call, <<>> before any
    prev,        \* history: leader, group and added as they were before the last call
    \* TransitiveGraph
    V,           \* self.V
    graph,       \* self.graph: vertex -> list of successors
    tc,          \* self.tc: V x V matrix of 0/1
    last,        \* history: the last method called on the graph
    closures,    \* history: how many transitive_closure() calls ran: "none", "one", "many"
    \* transitive_not_resolved
    clusters,    \* the argument: cluster id -> set of mention ids
    resolved,    \* the outcome of the call
    \* within_cluster_span_duplicate
    cluster,     \* the argument: a set of mention ids
    tokens,      \* the argument event_mention_id_2_sorted_tokens
    order,       \* the order in which `for eid in cluster` iterated the set
    duplicate,   \* the outcome of the call
    logged       \* whether the duplicate was logged

dsVars == <<leader, group, added, call, prev>>
graphVars == <<V, graph, tc, last, closures>>
clusterVars == <<clusters, resolved>>
spanVars == <<cluster, tokens, order, duplicate, logged>>
vars == <<dsVars, graphVars, clusterVars, spanVars>>

----------------------------------------------------------------------------
(* Bounds *)

MaxItems == 4
MaxPairs == 4
MaxV == 3
MaxEdges == 3
MaxClusterId == 2
MaxMentions == 3

----------------------------------------------------------------------------
(* DisjointSet *)

\* What dict.get returns for a missing key.
None == 0

\* The item identifiers passed to add: any tokens other than None.
Items == 1..MaxItems

Empty == [x \in {} |-> x]

\* dictionary[key] = value
put(dictionary, key, value) ==
    [x \in DOMAIN dictionary \cup {key} |-> IF x = key THEN value ELSE dictionary[x]]

\* dictionary.get(key)
get(dictionary, key) ==
    IF key \in DOMAIN dictionary THEN dictionary[key] ELSE None

\* faulty variant: the sides are never swapped
swap_never(group_a, group_b) == FALSE

\* len(group_a) < len(group_b): a's side is the smaller one, so the sides swap
swap(group_a, group_b) ==
    Cardinality(group_a) < Cardinality(group_b)

\* faulty variant: the absorbed group is deleted without being merged in
merge_group_no_union(g, leader_a, leader_b) ==
    [r \in DOMAIN g \ {leader_b} |-> g[r]]

\* faulty variant: the absorbed group's entry is kept
merge_group_no_del(g, leader_a, leader_b) ==
    [r \in DOMAIN g |-> IF r = leader_a THEN g[leader_a] \cup g[leader_b] ELSE g[r]]

\* group_a |= group_b; del self.group[leader_b]
merge_group(g, leader_a, leader_b) ==
    [r \in DOMAIN g \ {leader_b} |->
        IF r = leader_a THEN g[leader_a] \cup g[leader_b] ELSE g[r]]

\* faulty variant: only the absorbed leader itself is reassigned
merge_leader_only_rep(l, g, leader_a, leader_b) ==
    [k \in DOMAIN l |-> IF k = leader_b THEN leader_a ELSE l[k]]

\* for k in group_b: self.leader[k] = leader_a
merge_leader(l, g, leader_a, leader_b) ==
    [k \in DOMAIN l |-> IF k \in g[leader_b] THEN leader_a ELSE l[k]]

\* faulty variant: equal leaders are not recognised, the group is merged into itself
same_leader_never(leader_a, leader_b) == FALSE

\* leader_a == leader_b
same_leader(leader_a, leader_b) ==
    leader_a = leader_b

\* DisjointSet.add(a, b) on the state (l, g): the state it leaves
add(l, g, a, b) ==
    LET leader_a == get(l, a)
        leader_b == get(l, b)
    IN  IF leader_a # None
        THEN IF leader_b # None
             THEN IF same_leader(leader_a, leader_b)
                  THEN [leader |-> l, group |-> g]
                  ELSE LET sw == swap(g[leader_a], g[leader_b])
                           la == IF sw THEN leader_b ELSE leader_a
                           lb == IF sw THEN leader_a ELSE leader_b
                       IN  [leader |-> merge_leader(l, g, la, lb),
                            group |-> merge_group(g, la, lb)]
             ELSE [leader |-> put(l, b, leader_a),
                   group |-> [g EXCEPT ![leader_a] = @ \cup {b}]]
        ELSE IF leader_b # None
             THEN [leader |-> put(l, a, leader_b),
                   group |-> [g EXCEPT ![leader_b] = @ \cup {a}]]
             ELSE [leader |-> put(put(l, a, a), b, a),
                   group |-> put(g, a, {a, b})]

\* DisjointSet.__init__
DSInit ==
    /\ leader = Empty
    /\ group = Empty
    /\ added = {}
    /\ call = <<>>
    /\ prev = [leader |-> Empty, group |-> Empty, added |-> {}]

\* A call of add(a, b)
Add(a, b) ==
    /\ {a, b} \in added \/ Cardinality(added) < MaxPairs
    /\ LET after == add(leader, group, a, b)
       IN  /\ leader' = after.leader
           /\ group' = after.group
    /\ added' = added \cup {{a, b}}
    /\ call' = <<a, b>>
    /\ prev' = [leader |-> leader, group |-> group, added |-> added]

DSIdle == DSInit

----------------------------------------------------------------------------
(* DisjointSet: the claims *)

\* The items ever passed to add as an argument
Passed == UNION added

\* The groups, as sets of members
Groups == {group[r] : r \in DOMAIN group}

\* The last call was add(a, b) with a and b in two different groups
Merged ==
    /\ call # <<>>
    /\ call[1] \in DOMAIN prev.leader
    /\ call[2] \in DOMAIN prev.leader
    /\ prev.leader[call[1]] # prev.leader[call[2]]

RECURSIVE Linked(_, _)

\* The items linked to the items of S by at most n of the pairs passed
Linked(S, n) ==
    IF n = 0 THEN S ELSE Linked(S \cup UNION {P \in added : P \cap S # {}}, n - 1)

\* The connected components of the pairs passed, whatever the order of the
\* calls and of the two arguments of each call
Components == {Linked({a}, Cardinality(Passed)) : a \in Passed}

----------------------------------------------------------------------------
(* TransitiveGraph *)

Vertices(n) == 0..(n - 1)

RECURSIVE dfs_until(_, _, _, _), dfs_loop(_, _, _, _, _)

\* faulty variant: the traversal marks v and does not go on through it
dfs_until_no_recursion(g, t, s, v) ==
    [t EXCEPT ![s][v] = 1]

\* dfs_until(s, v) on the matrix t: the matrix it leaves
dfs_until(g, t, s, v) ==
    dfs_loop(g, [t EXCEPT ![s][v] = 1], s, v, 1)

\* for i in self.graph[v], from the n-th successor on
dfs_loop(g, t, s, v, n) ==
    IF n > Len(g[v])
    THEN t
    ELSE LET i == g[v][n]
         IN  dfs_loop(g, IF t[s][i] = 0 THEN dfs_until(g, t, s, i) ELSE t, s, v, n + 1)

RECURSIVE closure_loop(_, _, _, _)

\* for i in range(self.V), from vertex i on
closure_loop(g, t, n, i) ==
    IF i >= n THEN t ELSE closure_loop(g, dfs_until(g, t, i, i), n, i + 1)

RECURSIVE EdgeCount(_, _)

\* the number of add_edge calls so far
EdgeCount(g, n) ==
    IF n = 0 THEN 0 ELSE Len(g[n - 1]) + EdgeCount(g, n - 1)

\* TransitiveGraph.__init__(vertices)
GraphInit ==
    /\ V \in 1..MaxV
    /\ graph = [u \in Vertices(V) |-> <<>>]
    /\ tc = [i \in Vertices(V) |-> [j \in Vertices(V) |-> 0]]
    /\ last = "init"
    /\ closures = "none"

\* A call of add_edge(u, v)
add_edge(u, v) ==
    /\ EdgeCount(graph, V) < MaxEdges
    /\ graph' = [graph EXCEPT ![u] = Append(@, v)]
    /\ last' = "add_edge"
    /\ UNCHANGED <<V, tc, closures>>

\* A call of transitive_closure()
transitive_closure ==
    /\ tc' = closure_loop(graph, tc, V, 0)
    /\ last' = "transitive_closure"
    /\ closures' = IF closures = "none" THEN "one" ELSE "many"
    /\ UNCHANGED <<V, graph>>

GraphIdle ==
    /\ V = 0
    /\ graph = Empty
    /\ tc = Empty
    /\ last = "init"
    /\ closures = "none"

----------------------------------------------------------------------------
(* TransitiveGraph: the claims *)

\* The successors of the vertices of S
Successors(g, S) == UNION {{g[v][k] : k \in DOMAIN g[v]} : v \in S}

RECURSIVE ReachSet(_, _, _)

\* The vertices reached from S by a path of at most n edges
ReachSet(g, S, n) ==
    IF n = 0 THEN S ELSE ReachSet(g, S \cup Successors(g, S), n - 1)

\* The reachability relation of the edges added so far, as a 0/1 matrix
Reachability ==
    [i \in Vertices(V) |->
        [j \in Vertices(V) |-> IF j \in ReachSet(graph, {i}, V) THEN 1 ELSE 0]]

\* C3: the first transitive_closure() on a graph, after any add_edge calls,
\* returns tc[i][j] = 1 exactly when j is reached from i by zero or more edges.
C3_FirstClosure ==
    (last = "transitive_closure" /\ closures = "one") => tc = Reachability

\* The first closure of a three-vertex graph with a cycle through all
\* vertices: every vertex reaches every vertex
C3_Witness ==
    /\ last = "transitive_closure"
    /\ closures = "one"
    /\ V = 3
    /\ \A u \in Vertices(V) : Len(graph[u]) = 1 /\ graph[u][1] # u
    /\ \A i, j \in Vertices(V) : tc[i][j] = 1

\* C10: every transitive_closure() call, also one after earlier calls and
\* further add_edge calls, returns the reachability relation of the edges
\* added so far.
C10_EveryClosure ==
    last = "transitive_closure" => tc = Reachability

----------------------------------------------------------------------------
(* transitive_not_resolved *)

ClusterIds == 0..MaxClusterId
MentionIds == 1..MaxMentions

RECURSIVE pair_loop(_, _, _)

\* the two nested loops of transitive_not_resolved, from (i, j) on
pair_loop(c, i, j) ==
    LET n == Cardinality(DOMAIN c)
    IN  IF i >= n - 1 THEN "False"
        ELSE IF j >= n THEN pair_loop(c, i + 1, i + 2)
        ELSE IF i \notin DOMAIN c \/ j \notin DOMAIN c THEN "KeyError"
        ELSE IF c[i] \cap c[j] # {} THEN "True"
        ELSE pair_loop(c, i, j + 1)

\* transitive_not_resolved(clusters): "True", "False", or the KeyError of clusters[i]
transitive_not_resolved(c) == pair_loop(c, 0, 1)

\* The caller's clustering
ClustersInit ==
    /\ \E ids \in SUBSET ClusterIds : clusters \in [ids -> SUBSET MentionIds]
    /\ resolved = "none"

\* A call of transitive_not_resolved(clusters)
CheckClusters ==
    /\ resolved = "none"
    /\ resolved' = transitive_not_resolved(clusters)
    /\ UNCHANGED clusters

ClustersIdle ==
    /\ clusters = Empty
    /\ resolved = "none"

----------------------------------------------------------------------------
(* transitive_not_resolved: the claim *)

\* Some two distinct clusters share a mention
Overlap ==
    \E i, j \in DOMAIN clusters : i # j /\ clusters[i] \cap clusters[j] # {}

\* C4: for every clustering, whatever its cluster ids, the call returns true
\* when two distinct clusters intersect and false when all are disjoint.
C4_Overlap ==
    resolved # "none" => resolved = (IF Overlap THEN "True" ELSE "False")

----------------------------------------------------------------------------
(* within_cluster_span_duplicate *)

\* The token sequences a mention's span is drawn from
Spans == {<<>>, <<1>>, <<1, 2>>, <<2, 1>>}

\* faulty variant: a missing key yields an empty span instead of terminating
get_or_empty(dictionary, key) ==
    [ok |-> TRUE, value |-> IF key \in DOMAIN dictionary THEN dictionary[key] ELSE <<>>]

\* get_or_terminate(dictionary, key, error_msg): the value, or ok = FALSE
\* when terminate_with_error ends the process with sys.exit(1)
get_or_terminate(dictionary, key) ==
    IF key \in DOMAIN dictionary
    THEN [ok |-> TRUE, value |-> dictionary[key]]
    ELSE [ok |-> FALSE, value |-> <<>>]

\* faulty variant: an empty span is never taken as seen before
in_span_map_nonempty(span_map, span) ==
    span # <<>> /\ span \in DOMAIN span_map

\* span in span_map
in_span_map(span_map, span) ==
    span \in DOMAIN span_map

RECURSIVE span_loop(_, _, _, _)

\* for eid in cluster, from the n-th mention of the iteration order o on
span_loop(o, toks, n, span_map) ==
    IF n > Len(o)
    THEN [ret |-> "None", logged |-> FALSE]
    ELSE LET eid == o[n]
             got == get_or_terminate(toks, eid)
             span == got.value
         IN  IF ~got.ok
             THEN [ret |-> "exit", logged |-> FALSE]
             ELSE IF in_span_map(span_map, span)
                  THEN [ret |-> "True", logged |-> span # <<>>]
                  ELSE span_loop(o, toks, n + 1, put(span_map, span, eid))

\* within_cluster_span_duplicate(cluster, event_mention_id_2_sorted_tokens),
\* the set being iterated in the order o
within_cluster_span_duplicate(o, toks) ==
    span_loop(o, toks, 1, Empty)

\* The orders in which a set can be iterated
Orders(S) ==
    {o \in [1..Cardinality(S) -> S] : \A i, j \in DOMAIN o : o[i] = o[j] => i = j}

\* The caller's cluster and mention-to-span map
SpanInit ==
    /\ cluster \in SUBSET MentionIds
    /\ \E ids \in SUBSET MentionIds : tokens \in [ids -> Spans]
    /\ order = <<>>
    /\ duplicate = "none"
    /\ logged = FALSE

\* A call of within_cluster_span_duplicate(cluster, tokens)
CheckSpans ==
    /\ duplicate = "none"
    /\ \E o \in Orders(cluster) :
         LET out == within_cluster_span_duplicate(o, tokens)
         IN  /\ order' = o
             /\ duplicate' = out.ret
             /\ logged' = out.logged
    /\ UNCHANGED <<cluster, tokens>>

SpanIdle ==
    /\ cluster = {}
    /\ tokens = Empty
    /\ order = <<>>
    /\ duplicate = "none"
    /\ logged = FALSE

----------------------------------------------------------------------------
(* within_cluster_span_duplicate: the claims *)

\* Some mention of the cluster is absent from the mention-to-span map
HasAbsent == \E e \in cluster : e \notin DOMAIN tokens

\* The position of the first absent mention in the iteration order
FirstAbsent ==
    CHOOSE n \in DOMAIN order :
        /\ order[n] \notin DOMAIN tokens
        /\ \A k \in 1..(n - 1) : order[k] \in DOMAIN tokens

\* Two of the mentions iterated before position n have the same span
DuplicateBefore(n) ==
    \E i, j \in 1..(n - 1) : i # j /\ tokens[order[i]] = tokens[order[j]]

\* C5, as stated: a cluster with a mention absent from the map always
\* terminates the process, whatever the other mentions and the iteration order.
C5_AlwaysTerminates ==
    (duplicate # "none" /\ HasAbsent) => duplicate = "exit"

\* C5, amended: a cluster with a mention absent from the map terminates the
\* process, unless two mentions with the same span are both iterated before
\* the first absent one, and then the call returns true; it never completes
\* with the absent/false result.
C5_TerminatesUnlessDuplicateFirst ==
    (duplicate # "none" /\ HasAbsent) =>
        duplicate = (IF DuplicateBefore(FirstAbsent) THEN "True" ELSE "exit")

\* The process was terminated on a cluster that also holds two mentions of
\* one span, the absent mention iterated between them
C5_Witness ==
    /\ duplicate = "exit"
    /\ Len(order) = 3
    /\ order[2] \notin DOMAIN tokens
    /\ order[1] \in DOMAIN tokens
    /\ order[3] \in DOMAIN tokens
    /\ tokens[order[1]] = tokens[order[3]]

\* C6: with every mention of the cluster in the map, the call returns true
\* exactly when two different mentions have the same token sequence (two empty
\* spans included), and otherwise completes with no value.
C6_Duplicate ==
    (duplicate # "none" /\ ~HasAbsent) =>
        duplicate = (IF \E e1, e2 \in cluster : e1 # e2 /\ tokens[e1] = tokens[e2]
                     THEN "True" ELSE "None")

\* True was returned, unlogged, for two mentions of an empty span
C6_Witness ==
    /\ duplicate = "True"
    /\ ~HasAbsent
    /\ ~logged
    /\ \E e1, e2 \in cluster : e1 # e2 /\ tokens[e1] = <<>> /\ tokens[e2] = <<>>

\* The call completed with no value on spans of the same tokens in another order
C6_WitnessNone ==
    /\ duplicate = "None"
    /\ \E e1, e2 \in cluster : tokens[e1] = <<1, 2>> /\ tokens[e2] = <<2, 1>>

----------------------------------------------------------------------------
(* Specifications *)

Init == DSInit /\ GraphIdle /\ ClustersIdle /\ SpanIdle

Next == \E a, b \in Items : Add(a, b) /\ UNCHANGED <<graphVars, clusterVars, spanVars>>

Spec == Init /\ [][Next]_vars

InitGraph == DSIdle /\ GraphInit /\ ClustersIdle /\ SpanIdle

AddEdge == \E u, v \in Vertices(V) : add_edge(u, v) /\ UNCHANGED <<dsVars, clusterVars, spanVars>>

Closure == transitive_closure /\ UNCHANGED <<dsVars, clusterVars, spanVars>>

NextGraph == AddEdge \/ Closure

SpecGraph == InitGraph /\ [][NextGraph]_vars

InitClusters == DSIdle /\ GraphIdle /\ ClustersInit /\ SpanIdle

NextClusters == CheckClusters /\ UNCHANGED <<dsVars, graphVars, spanVars>>

SpecClusters == InitClusters /\ [][NextClusters]_vars

InitSpan == DSIdle /\ GraphIdle /\ ClustersIdle /\ SpanInit

NextSpan == CheckSpans /\ UNCHANGED <<dsVars, graphVars, clusterVars>>

SpecSpan == InitSpan /\ [][NextSpan]_vars

====
